---- MODULE Spec2Model ----
(***************************************************************************)
(* Model of rs-xlib (src/src/lib.rs, src/src/cdef.rs): the safe wrappers   *)
(* x_open_display / x_close_display / x_default_screen over the foreign    *)
(* Xlib entry points, and the two ownership wrappers DoNotFree and XBox.   *)
(*                                                                         *)
(* The foreign library is a test double: every foreign call is recorded    *)
(* (routine, pointer argument, string behind the pointer, returned value)  *)
(* and its return value is chosen nondeterministically.                    *)
(***************************************************************************)
EXTENDS Integers, Sequences, FiniteSets, TLC

\* ---------------------------------------------------------------- bounds
MaxHandles == 2     \* DoNotFree<Display> values the caller may obtain
MaxBoxes   == 2     \* XBox values the caller may construct
MaxAddr    == 1     \* foreign addresses are 0..MaxAddr, 0 being null
MaxLen     == 1     \* longest display name, in bytes
MaxByte    == 1     \* display-name bytes are 0..MaxByte
MaxCount   == 2     \* largest element count given to boxed_slice_from_raw
MaxQueries == 2     \* x_default_screen calls counted per handle
MaxStatus  == 1     \* foreign c_int results are -MaxStatus..MaxStatus

\* ------------------------------------------------------- program values
NULL     == 0       \* std::ptr::null()
CStrAddr == 1       \* display_name.as_ptr(): address of the CString buffer

Addrs    == 0..MaxAddr
CInts    == (0 - MaxStatus)..MaxStatus
Bytes    == 0..MaxByte
Handles  == 1..MaxHandles
Boxes    == 1..MaxBoxes

RECURSIVE SeqsUpTo(_)
SeqsUpTo(n) ==
    IF n = 0 THEN {<<>>}
    ELSE LET shorter == SeqsUpTo(n - 1)
         IN  shorter \cup {Append(s, b) : s \in {t \in shorter : Len(t) = n - 1}, b \in Bytes}

\* Option<&str>: None, or Some of a byte string
NoName      == [some |-> FALSE, bytes |-> <<>>]
SomeName(s) == [some |-> TRUE, bytes |-> s]
Names       == {NoName} \cup {SomeName(s) : s \in SeqsUpTo(MaxLen)}

\* one recorded foreign call (cdef.rs extern block)
Call(fn, ptr, str, ret) == [fn |-> fn, ptr |-> ptr, str |-> str, ret |-> ret]

XOpenDisplay(name, str, ret)   == Call("XOpenDisplay", name, str, ret)
XCloseDisplay(display, ret)    == Call("XCloseDisplay", display, <<>>, ret)
XFree(data, ret)               == Call("XFree", data, <<>>, ret)
XDefaultScreen(display, ret)   == Call("XDefaultScreen", display, <<>>, ret)

\* CString::new: fails on any interior 0 byte, else appends the terminator
HasNul(bytes) == \E i \in 1..Len(bytes) : bytes[i] = 0
CStringNew(bytes) ==
    IF HasNul(bytes) THEN [ok |-> FALSE, cstr |-> <<>>]
    ELSE [ok |-> TRUE, cstr |-> Append(bytes, 0)]

\* result of an operation: what it returned and the foreign calls it made
Out(calls, tag, val, len, moved) ==
    [calls |-> calls, tag |-> tag, val |-> val, len |-> len, moved |-> moved]

\* variant of WrapDisplay without the is_null test
WrapDisplay_unchecked(calls, display) ==
    Out(calls, "OkSome", display, 0, FALSE)

\* lib.rs 187-191: null check on the foreign result
WrapDisplay(calls, display) ==
    IF display = NULL
    THEN Out(calls, "OkNone", NULL, 0, FALSE)
    ELSE Out(calls, "OkSome", display, 0, FALSE)

\* variant of x_open_display that ignores the CString::new failure
x_open_display_unchecked(display_name, fret) ==
    IF ~display_name.some
    THEN WrapDisplay(<<XOpenDisplay(NULL, <<>>, fret)>>, fret)
    ELSE WrapDisplay(<<XOpenDisplay(CStrAddr, Append(display_name.bytes, 0), fret)>>, fret)

\* variant of x_open_display that turns None into the empty name
x_open_display_empty_name(display_name, fret) ==
    LET c == CStringNew(display_name.bytes)
    IN  IF ~c.ok
        THEN Out(<<>>, "InvalidArgumentValue", NULL, 0, FALSE)
        ELSE WrapDisplay(<<XOpenDisplay(CStrAddr, c.cstr, fret)>>, fret)

\* lib.rs 166-192; fret is what the foreign open routine returns if called
x_open_display(display_name, fret) ==
    IF ~display_name.some
    THEN WrapDisplay(<<XOpenDisplay(NULL, <<>>, fret)>>, fret)
    ELSE LET c == CStringNew(display_name.bytes)
         IN  IF ~c.ok
             THEN Out(<<>>, "InvalidArgumentValue", NULL, 0, FALSE)
             ELSE WrapDisplay(<<XOpenDisplay(CStrAddr, c.cstr, fret)>>, fret)

\* variant of x_close_display that borrows the handle instead of taking it
x_close_display_by_ref(display, fret) ==
    Out(<<XCloseDisplay(display.data, fret)>>, "i32", fret, 0, FALSE)

\* variant of x_close_display that reports success whatever Xlib returned
x_close_display_zero(display, fret) ==
    Out(<<XCloseDisplay(display.data, fret)>>, "i32", 0, 0, TRUE)

\* lib.rs 194-196: takes the handle by value (moved = TRUE)
x_close_display(display, fret) ==
    Out(<<XCloseDisplay(display.data, fret)>>, "i32", fret, 0, TRUE)

\* variant of x_default_screen that takes the handle by value
x_default_screen_consuming(display, fret) ==
    Out(<<XDefaultScreen(display.data, fret)>>, "i32", fret, 0, TRUE)

\* lib.rs 198-200: takes the handle by &mut (moved = FALSE)
x_default_screen(display, fret) ==
    Out(<<XDefaultScreen(display.data, fret)>>, "i32", fret, 0, FALSE)

\* lib.rs 13-25: Deref / DerefMut for DoNotFree<T>
DoNotFree_deref(display) ==
    Out(<<>>, "ref", display.data, 1, FALSE)

DoNotFree_deref_mut(display) ==
    Out(<<>>, "mut", display.data, 1, FALSE)

\* variant of DoNotFree with a Drop impl that releases the pointer
DoNotFree_drop_free(display) ==
    Out(<<XFree(display.data, 0)>>, "unit", NULL, 0, TRUE)

\* DoNotFree has no Drop impl: leaving scope does nothing
DoNotFree_drop(display) ==
    Out(<<>>, "unit", NULL, 0, TRUE)

\* lib.rs 55-59: XBoxFatPtr { data, length }
XBoxFatPtr(data, length) == [data |-> data, length |-> length]

\* lib.rs 61-71
from_raw(ptr) == XBoxFatPtr(ptr, 1)

\* lib.rs 73-83
boxed_slice_from_raw(ptr, length) == XBoxFatPtr(ptr, length)

\* The two machine words of an XBoxFatPtr value, in the order the build laid
\* the fields out.  The struct has no #[repr(C)], so the order is the
\* compiler's choice.
XBoxFatPtr_words(fp, lay) ==
    IF lay = "data_first" THEN <<fp.data, fp.length>> ELSE <<fp.length, fp.data>>

\* lib.rs 85-97: Deref / DerefMut for XBox<T> read the data field
XBox_deref(fp, lay) ==
    Out(<<>>, "ref", fp.data, 1, FALSE)

XBox_deref_mut(fp, lay) ==
    Out(<<>>, "mut", fp.data, 1, FALSE)

\* lib.rs 99-119: Deref / DerefMut for XBox<[T]> transmute &self.data to a
\* reference to a slice pointer, i.e. read the struct's two words as
\* (base address, element count)
XBox_slice_deref(fp, lay) ==
    LET temp == XBoxFatPtr_words(fp, lay)
    IN  Out(<<>>, "ref", temp[1], temp[2], FALSE)

XBox_slice_deref_mut(fp, lay) ==
    LET temp == XBoxFatPtr_words(fp, lay)
    IN  Out(<<>>, "mut", temp[1], temp[2], FALSE)

\* variant of XBox without the Drop impl
XBox_drop_leak(fp, fret) ==
    Out(<<>>, "unit", NULL, 0, TRUE)

\* lib.rs 121-127: Drop for XBox<T: ?Sized>; XFree's status is discarded
XBox_drop(fp, fret) ==
    Out(<<XFree(fp.data, fret)>>, "unit", NULL, 0, TRUE)

\* layout:   field order the build chose for XBoxFatPtr
\* displays: per handle, its lifecycle state, address and the foreign calls made through it
\* boxes:    per XBox, its lifecycle state, XBoxFatPtr fields and constructor arguments
\* last:     the operation just performed, its input and its outcome
VARIABLES layout, displays, boxes, last

vars == <<layout, displays, boxes, last>>

NoDisplay == [st |-> "unopened", data |-> NULL, nclose |-> 0, nquery |-> 0]
NoBox     == [st |-> "none", slice |-> FALSE, data |-> NULL, length |-> 0,
              ptr0 |-> NULL, n0 |-> 0, nfree |-> 0, freed |-> NULL]
Op(op, obj, name, out) ==
    [op |-> op, obj |-> obj, name |-> name, calls |-> out.calls,
     tag |-> out.tag, val |-> out.val, len |-> out.len]

Layouts == {"data_first", "length_first"}

Init ==
    /\ layout \in Layouts
    /\ displays = [h \in Handles |-> NoDisplay]
    /\ boxes = [b \in Boxes |-> NoBox]
    /\ last = Op("init", 0, NoName, Out(<<>>, "unit", NULL, 0, FALSE))

\* ------------------------------------------------ connection operations
\* handles are numbered in the order the caller obtains them
Open(h) ==
    /\ displays[h].st = "unopened"
    /\ \A g \in Handles : g < h => displays[g].st # "unopened"
    /\ \E name \in Names, fret \in Addrs :
          LET r == x_open_display(name, fret)
          IN  /\ last' = Op("open", h, name, r)
              /\ displays' = IF r.tag = "OkSome"
                             THEN [displays EXCEPT ![h].st = "open", ![h].data = r.val]
                             ELSE displays
    /\ UNCHANGED <<layout, boxes>>

Count(calls, fn) == Cardinality({i \in 1..Len(calls) : calls[i].fn = fn})

Through(h, r) ==
    [displays EXCEPT
        ![h].st = IF r.moved THEN "closed" ELSE @,
        ![h].nclose = @ + Count(r.calls, "XCloseDisplay"),
        ![h].nquery = @ + Count(r.calls, "XDefaultScreen")]

Close(h) ==
    /\ displays[h].st = "open"
    /\ \E fret \in CInts :
          LET r == x_close_display(displays[h], fret)
          IN  /\ last' = Op("close", h, NoName, r)
              /\ displays' = Through(h, r)
    /\ UNCHANGED <<layout, boxes>>

DefaultScreen(h) ==
    /\ displays[h].st = "open"
    /\ displays[h].nquery < MaxQueries
    /\ \E fret \in CInts :
          LET r == x_default_screen(displays[h], fret)
          IN  /\ last' = Op("default_screen", h, NoName, r)
              /\ displays' = Through(h, r)
    /\ UNCHANGED <<layout, boxes>>

DisplayDeref(h) ==
    /\ displays[h].st = "open"
    /\ LET r == DoNotFree_deref(displays[h])
       IN  /\ last' = Op("display_deref", h, NoName, r)
           /\ displays' = Through(h, r)
    /\ UNCHANGED <<layout, boxes>>

DisplayDerefMut(h) ==
    /\ displays[h].st = "open"
    /\ LET r == DoNotFree_deref_mut(displays[h])
       IN  /\ last' = Op("display_deref_mut", h, NoName, r)
           /\ displays' = Through(h, r)
    /\ UNCHANGED <<layout, boxes>>

DisplayScopeExit(h) ==
    /\ displays[h].st = "open"
    /\ LET r == DoNotFree_drop(displays[h])
       IN  /\ last' = Op("display_scope_exit", h, NoName, r)
           /\ displays' = [Through(h, r) EXCEPT ![h].st = "dropped"]
    /\ UNCHANGED <<layout, boxes>>

\* ------------------------------------------------------- XBox operations
Built(b, slice, fp, ptr, n) ==
    [boxes EXCEPT ![b] = [st |-> "live", slice |-> slice, data |-> fp.data,
                          length |-> fp.length, ptr0 |-> ptr, n0 |-> n,
                          nfree |-> 0, freed |-> NULL]]

FatPtrOf(b) == XBoxFatPtr(boxes[b].data, boxes[b].length)

Freed(b, r) ==
    [boxes EXCEPT
        ![b].st = IF r.moved THEN "dropped" ELSE @,
        ![b].nfree = @ + Count(r.calls, "XFree"),
        ![b].freed = IF Count(r.calls, "XFree") > 0
                     THEN r.calls[Len(r.calls)].ptr ELSE @]

FromRaw(b) ==
    /\ boxes[b].st = "none"
    /\ \E ptr \in Addrs :
          /\ boxes' = Built(b, FALSE, from_raw(ptr), ptr, 1)
          /\ last' = Op("from_raw", b, NoName, Out(<<>>, "XBox", ptr, 1, FALSE))
    /\ UNCHANGED <<layout, displays>>

BoxedSliceFromRaw(b) ==
    /\ boxes[b].st = "none"
    /\ \E ptr \in Addrs, length \in 0..MaxCount :
          /\ boxes' = Built(b, TRUE, boxed_slice_from_raw(ptr, length), ptr, length)
          /\ last' = Op("boxed_slice_from_raw", b, NoName, Out(<<>>, "XBox", ptr, length, FALSE))
    /\ UNCHANGED <<layout, displays>>

BoxDeref(b) ==
    /\ boxes[b].st = "live"
    /\ LET r == IF boxes[b].slice THEN XBox_slice_deref(FatPtrOf(b), layout)
                ELSE XBox_deref(FatPtrOf(b), layout)
       IN  /\ last' = Op("box_deref", b, NoName, r)
           /\ boxes' = Freed(b, r)
    /\ UNCHANGED <<layout, displays>>

BoxDerefMut(b) ==
    /\ boxes[b].st = "live"
    /\ LET r == IF boxes[b].slice THEN XBox_slice_deref_mut(FatPtrOf(b), layout)
                ELSE XBox_deref_mut(FatPtrOf(b), layout)
       IN  /\ last' = Op("box_deref_mut", b, NoName, r)
           /\ boxes' = Freed(b, r)
    /\ UNCHANGED <<layout, displays>>

BoxDrop(b) ==
    /\ boxes[b].st = "live"
    /\ \E fret \in CInts :
          LET r == XBox_drop(FatPtrOf(b), fret)
          IN  /\ last' = Op("box_drop", b, NoName, r)
              /\ boxes' = Freed(b, r)
    /\ UNCHANGED <<layout, displays>>

NextDisplay ==
    \/ \E h \in Handles : Open(h)
    \/ \E h \in Handles : Close(h)
    \/ \E h \in Handles : DefaultScreen(h)
    \/ \E h \in Handles : DisplayDeref(h)
    \/ \E h \in Handles : DisplayDerefMut(h)
    \/ \E h \in Handles : DisplayScopeExit(h)

NextBox ==
    \/ \E b \in Boxes : FromRaw(b)
    \/ \E b \in Boxes : BoxedSliceFromRaw(b)
    \/ \E b \in Boxes : BoxDeref(b)
    \/ \E b \in Boxes : BoxDerefMut(b)
    \/ \E b \in Boxes : BoxDrop(b)

Next == NextDisplay \/ NextBox

\* the whole library
Spec == Init /\ [][Next]_vars

\* a caller that uses only the connection operations
SpecDisplay == Init /\ [][NextDisplay]_vars

\* a caller that uses only the owned wrapper
SpecBox == Init /\ [][NextBox]_vars

\* ----------------------------------------------------------- properties
\* C1: an Open whose name holds an embedded 0 byte returns the error of kind
\* InvalidArgumentValue, makes no foreign call, and yields no handle.
C1_NulNameRejected ==
    (last.op = "open" /\ last.name.some /\ HasNul(last.name.bytes)) =>
        /\ last.tag = "InvalidArgumentValue"
        /\ last.calls = <<>>
        /\ displays[last.obj].st = "unopened"

C1_Witness ==
    /\ last.op = "open" /\ last.name.some /\ HasNul(last.name.bytes)
    /\ Len(last.name.bytes) = MaxLen
    /\ last.tag = "InvalidArgumentValue"

\* C2: an Open whose name is absent or free of 0 bytes never returns
\* InvalidArgumentValue; it returns Ok(None) exactly when XOpenDisplay
\* returned null, and otherwise Ok(Some(handle)) holding the returned address.
C2_ValidNameOpens ==
    (last.op = "open" /\ (~last.name.some \/ ~HasNul(last.name.bytes))) =>
        /\ last.tag # "InvalidArgumentValue"
        /\ Len(last.calls) = 1
        /\ last.calls[1].fn = "XOpenDisplay"
        /\ (last.tag = "OkNone") = (last.calls[1].ret = NULL)
        /\ last.tag = "OkNone" => displays[last.obj].st = "unopened"
        /\ last.tag # "OkNone" =>
              /\ last.tag = "OkSome"
              /\ last.val = last.calls[1].ret
              /\ displays[last.obj].st = "open"
              /\ displays[last.obj].data = last.calls[1].ret

C2_Witness ==
    /\ last.op = "open" /\ last.name.some /\ ~HasNul(last.name.bytes)
    /\ last.tag = "OkSome" /\ last.val = MaxAddr
    /\ \E h \in Handles : h # last.obj /\ displays[h].st = "unopened"
                          /\ displays[last.obj].data = MaxAddr

\* C3: Open(None) makes exactly one foreign call, XOpenDisplay, and passes it
\* the null pointer as the name.
C3_NoneReachesForeignOpen ==
    (last.op = "open" /\ ~last.name.some) =>
        /\ Len(last.calls) = 1
        /\ last.calls[1].fn = "XOpenDisplay"
        /\ last.calls[1].ptr = NULL
        /\ last.calls[1].str = <<>>

C3_Witness ==
    /\ last.op = "open" /\ ~last.name.some
    /\ last.tag = "OkNone"
    /\ Len(last.calls) = 1

\* C4: once a handle has been passed to x_close_display it stays closed and
\* no further XCloseDisplay or XDefaultScreen call is made through it, so
\* XCloseDisplay is called at most once per handle.
C4_ClosedIsTerminal ==
    [][\A h \in Handles :
          /\ displays'[h].nclose <= 1
          /\ displays[h].st = "closed" =>
                /\ displays'[h].st = "closed"
                /\ displays'[h].nclose = displays[h].nclose
                /\ displays'[h].nquery = displays[h].nquery]_vars

C4_Witness ==
    \E h \in Handles :
        /\ displays[h].st = "closed" /\ displays[h].nclose = 1
        /\ last.obj # h /\ last.op = "close"

\* C5: x_close_display makes exactly one foreign call, XCloseDisplay on the
\* handle's address, and returns that call's status; x_default_screen returns
\* what XDefaultScreen returned for the handle's address.
C5_ForeignResultsPassThrough ==
    /\ last.op = "close" =>
          /\ Len(last.calls) = 1
          /\ last.calls[1].fn = "XCloseDisplay"
          /\ last.calls[1].ptr = displays[last.obj].data
          /\ last.tag = "i32" /\ last.val = last.calls[1].ret
    /\ last.op = "default_screen" =>
          /\ Len(last.calls) = 1
          /\ last.calls[1].fn = "XDefaultScreen"
          /\ last.calls[1].ptr = displays[last.obj].data
          /\ last.tag = "i32" /\ last.val = last.calls[1].ret

C5_Witness ==
    /\ last.op = "close"
    /\ last.calls[1].ret = 0 - MaxStatus
    /\ last.val = 0 - MaxStatus

\* C6: a DefaultScreen query leaves the handle open with the same address
\* and makes no foreign close or free call, so the handle can be queried
\* again or closed.
C6_QueryKeepsHandle ==
    [][\A h \in Handles :
          (last'.op = "default_screen" /\ last'.obj = h) =>
              /\ displays[h].st = "open" /\ displays'[h].st = "open"
              /\ displays'[h].data = displays[h].data
              /\ displays'[h].nclose = displays[h].nclose
              /\ displays'[h].nquery = displays[h].nquery + 1
              /\ \A i \in 1..Len(last'.calls) :
                    last'.calls[i].fn \notin {"XCloseDisplay", "XFree"}]_vars

C6_Witness ==
    /\ last.op = "close"
    /\ displays[last.obj].nquery >= 2
    /\ displays[last.obj].st = "closed"

\* C7: an XBox makes no XFree call while it is live (construction, read and
\* mutate access), and its destruction makes exactly one XFree call, on the
\* base address given at construction.
C7_FreedExactlyOnce ==
    /\ \A b \in Boxes :
          /\ boxes[b].st = "live" => boxes[b].nfree = 0
          /\ boxes[b].st = "dropped" =>
                boxes[b].nfree = 1 /\ boxes[b].freed = boxes[b].ptr0
    /\ last.op \in {"from_raw", "boxed_slice_from_raw", "box_deref", "box_deref_mut"} =>
          last.calls = <<>>
    /\ last.op = "box_drop" =>
          /\ Len(last.calls) = 1
          /\ last.calls[1].fn = "XFree"
          /\ last.calls[1].ptr = boxes[last.obj].ptr0

C7_Witness ==
    /\ last.op = "box_drop"
    /\ boxes[last.obj].slice
    /\ boxes[last.obj].n0 = MaxCount /\ boxes[last.obj].ptr0 = 1
    /\ boxes[last.obj].nfree = 1

C9_BorrowedNeverFreed ==
    /\ \A i \in 1..Len(last.calls) : last.calls[i].fn # "XFree"
    /\ last.op \in {"display_scope_exit", "display_deref", "display_deref_mut"} =>
          last.calls = <<>>

C9_Witness ==
    /\ last.op = "display_scope_exit"
    /\ displays[last.obj].st = "dropped"
    /\ displays[last.obj].nquery >= 1
    /\ displays[last.obj].nclose = 0

\* C10: every XCloseDisplay, XDefaultScreen and XFree call the wrapper makes
\* passes a non-null address.
C10_NoNullToForeign ==
    \A i \in 1..Len(last.calls) :
        last.calls[i].fn \in {"XCloseDisplay", "XDefaultScreen", "XFree"} =>
            last.calls[i].ptr # NULL
====
